---- MODULE Spec2Model ----
(***************************************************************************)
(* Model of the Telegram media downloader bot (src/Main_code.py).          *)
(*                                                                         *)
(* Strings are sequences of tokens, so that concatenation, startswith,     *)
(* equality, split and replace are computed, not assumed.  File sizes are  *)
(* counted in KiB (1/1024 MB); every size the model uses is a whole number *)
(* of KiB, so "size / (1024*1024) > LIMIT" is "size > LIMIT * MB".         *)
(*                                                                         *)
(* The Application is built with its defaults (line 562), so updates are   *)
(* processed one at a time: `cur` is the update being processed.           *)
(***************************************************************************)
EXTENDS Integers, Sequences, FiniteSets, TLC

VARIABLES
    config,      \* environment-sourced configuration, fixed at start-up
    user_data,   \* context.user_data, per user
    disk,        \* the download directory: file path -> size in KiB, or NoFile
    keyboard,    \* per user: callback data of the premium prompt's first button
    cur,         \* the update being processed, and the handler's position
    log,         \* transport calls of the update being / last processed
    last,        \* summary of the last update processed
    handled      \* number of updates processed so far

vars == <<config, user_data, disk, keyboard, cur, log, last, handled>>

-----------------------------------------------------------------------------
(* Bounds of the model *)

MaxUpdates == 2

-----------------------------------------------------------------------------
(* Program constants *)

MB == 1024
REGULAR_USER_LIMIT_MB == 50
PREMIUM_USER_LIMIT_MB == 2048

Absent == "absent"
None == "None"
NoFile == 0

Users == {"111", "222"}

-----------------------------------------------------------------------------
(* String helpers (str methods of Python, on token sequences) *)

startswith(s, p) ==
    /\ Len(s) >= Len(p)
    /\ SubSeq(s, 1, Len(p)) = p

RECURSIVE replace(_, _)
\* s.replace(tok, ''): every occurrence of the token removed
replace(s, tok) ==
    IF s = <<>> THEN <<>>
    ELSE IF Head(s) = tok THEN replace(Tail(s), tok)
         ELSE <<Head(s)>> \o replace(Tail(s), tok)

RECURSIVE split(_, _)
\* s.split(sep): the pieces between separators; '' gives ['']
split(s, sep) ==
    IF \A i \in 1..Len(s) : s[i] # sep THEN <<s>>
    ELSE LET i == CHOOSE k \in 1..Len(s) :
                      /\ s[k] = sep
                      /\ \A j \in 1..(k-1) : s[j] # sep
         IN  <<SubSeq(s, 1, i-1)>> \o split(SubSeq(s, i+1, Len(s)), sep)

InSeq(x, s) == \E i \in 1..Len(s) : s[i] = x

-----------------------------------------------------------------------------
(* Configuration *)

\* the environments considered: ALLOWED_USERS and MAX_FILE_SIZE_MB
Environments ==
    { [ALLOWED_USERS |-> <<>>,           MAX_FILE_SIZE_MB |-> 2048],
      [ALLOWED_USERS |-> <<"111">>,      MAX_FILE_SIZE_MB |-> 2048],
      [ALLOWED_USERS |-> <<",", "111">>, MAX_FILE_SIZE_MB |-> 2048],
      [ALLOWED_USERS |-> <<>>,           MAX_FILE_SIZE_MB |-> 1024] }

ALLOWED_USERS(env) == split(env, ",")

MAX_FILE_SIZE_MB == config.MAX_FILE_SIZE_MB

-----------------------------------------------------------------------------
(* Message texts and the URL extractor *)

Schemes == {"http://", "https://"}

\* " " is the only token outside the character class of the pattern of line
\* 413; "!" is in the class but is no part of a host or a path start
Tokens == {" ", "!", "http://", "https://", "example.com", "/watch"}

\* the message texts considered: without a scheme, with a scheme that
\* nothing or a space follows, with a first match that is_valid_url rejects
\* (also when a valid one follows it), and with a first match it accepts
Texts ==
    { <<"!">>,
      <<"example.com", "/watch">>,
      <<"https://">>,
      <<"http://", " ", "example.com">>,
      <<"https://", "!">>,
      <<"http://", "example.com", "!">>,
      <<"https://", "!", " ", "https://", "example.com">>,
      <<"https://", "example.com">>,
      <<"!", "http://", "example.com", "/watch", "!", " ", "https://", "!">> }

\* the end of the maximal run of class characters that starts at position i
RECURSIVE RunEnd(_, _)
RunEnd(text, i) ==
    IF i < Len(text) /\ text[i+1] # " " THEN RunEnd(text, i + 1) ELSE i

\* re.findall of line 413 from position i on: a scheme followed by one or
\* more class characters, leftmost first, not overlapping
RECURSIVE FindFrom(_, _)
FindFrom(text, i) ==
    IF i > Len(text) THEN <<>>
    ELSE IF /\ text[i] \in Schemes
            /\ i < Len(text)
            /\ text[i+1] # " "
         THEN LET j == RunEnd(text, i + 1)
              IN  <<SubSeq(text, i, j)>> \o FindFrom(text, j + 1)
         ELSE FindFrom(text, i + 1)

findall(text) == FindFrom(text, 1)

\* faulty variant of is_valid_url: only the scheme is checked
is_valid_url_loose(url) ==
    /\ Len(url) >= 2
    /\ url[1] \in Schemes

\* MediaDownloader.is_valid_url: scheme, a host of dotted labels ending in a
\* 2-6 letter top-level domain (one or more "example.com" tokens read as
\* labels), then nothing or a path that starts with "/"
is_valid_url(url) ==
    /\ Len(url) >= 2
    /\ url[1] \in Schemes
    /\ \E k \in 2..Len(url) :
          /\ \A i \in 2..k : url[i] = "example.com"
          /\ \/ k = Len(url)
             \/ url[k+1] = "/watch"

-----------------------------------------------------------------------------
(* The download directory *)

Titles == {"A", "B"}

Paths == {<<t, ".", e>> : t \in Titles, e \in {"mp4", "mp3"}}

EmptyDisk == [p \in Paths |-> NoFile]

exists(dsk, path) == path \in DOMAIN dsk /\ dsk[path] # NoFile

\* os.remove of an existing file
remove(dsk, path) == [dsk EXCEPT ![path] = NoFile]

\* file sizes the engine may write, in KiB: both limits and one KiB more
Sizes == { REGULAR_USER_LIMIT_MB * MB, REGULAR_USER_LIMIT_MB * MB + 1,
           PREMIUM_USER_LIMIT_MB * MB, PREMIUM_USER_LIMIT_MB * MB + 1 }

-----------------------------------------------------------------------------
(* The extraction engine, as seen by download_media *)

\* a dict entry of the probe's info: the key is missing ("absent"), holds
\* None ("none") or holds a number of KiB ("int")
Missing == [kind |-> "absent", v |-> 0]
Null == [kind |-> "none", v |-> 0]
Num(n) == [kind |-> "int", v |-> n]

\* what the probe reports in info['filesize'] / info['filesize_approx']
EstimateInfos ==
    { [filesize |-> Missing,          filesize_approx |-> Missing],
      [filesize |-> Null,             filesize_approx |-> Null],
      [filesize |-> Num(30 * MB),     filesize_approx |-> Missing],
      [filesize |-> Num(0),           filesize_approx |-> Num(2048 * MB)],
      [filesize |-> Num(3000 * MB),   filesize_approx |-> Missing] }

NoEstimate == [filesize |-> Missing, filesize_approx |-> Missing]

\* the engine behaviours considered for one request: a failing step; every
\* estimate, for a small file; and downloads of every size and title whose
\* estimate is missing
EngineBehaviours ==
    { [fail |-> f, info |-> NoEstimate, size |-> NoFile, title |-> "A"] :
          f \in {"init", "probe", "download"} }
    \cup
    { [fail |-> "none", info |-> i, size |-> REGULAR_USER_LIMIT_MB * MB,
       title |-> "A"] : i \in EstimateInfos }
    \cup
    { [fail |-> "normalise", info |-> NoEstimate,
       size |-> REGULAR_USER_LIMIT_MB * MB + 1, title |-> t] : t \in Titles }
    \cup
    { [fail |-> "none", info |-> NoEstimate, size |-> s, title |-> t] :
          s \in Sizes, t \in Titles }

\* MediaDownloader.get_yt_dlp_options: the options that decide the output
get_yt_dlp_options(quality, media_type) ==
    IF media_type = "audio"
    THEN [outtmpl |-> <<"%(title)s", ".", "%(ext)s">>,
          format |-> "bestaudio/best",
          postprocessor |-> "mp3", merge_output_format |-> Absent]
    ELSE [outtmpl |-> <<"%(title)s", ".", "%(ext)s">>,
          format |-> CASE quality = "best"  -> "bestvideo+bestaudio/best"
                       [] quality = "1080p" -> "height<=1080"
                       [] quality = "720p"  -> "height<=720"
                       [] quality = "480p"  -> "height<=480"
                       [] OTHER             -> "best[ext=mp4]/best",
          postprocessor |-> Absent, merge_output_format |-> "mp4"]

\* the extension of the format the engine selected (info['ext'])
InfoExt(opts) == IF opts.postprocessor = "mp3" THEN "m4a" ELSE "mp4"

\* ydl.prepare_filename(info): the output template filled from info
prepare_filename(opts, title) == <<title, ".", InfoExt(opts)>>

\* the file the engine leaves on disk after post-processing
WrittenFile(opts, title) ==
    <<title, ".", IF opts.postprocessor = "mp3" THEN "mp3"
                  ELSE opts.merge_output_format>>

\* s.rsplit('.', 1)[0] of a file name with one extension
rsplit_stem(name) == SubSeq(name, 1, Len(name) - 2)

FailureResult(err) ==
    [success |-> FALSE, filepath |-> None, title |-> None,
     filesize_mb |-> 0, error |-> err]

\* line 126: info.get('filesize') or info.get('filesize_approx', 0)
EstimatedFilesize(info) ==
    IF info.filesize.kind = "int" /\ info.filesize.v # 0 THEN info.filesize
    ELSE IF info.filesize_approx.kind = "absent" THEN Num(0)
         ELSE info.filesize_approx

\* faulty variant of ExceedsCeiling: the estimate in MB compared with the ceiling
\* in finer units
ExceedsCeiling_mb(filesize, max_mb) == filesize.v \div MB > max_mb * MB

\* line 129: the estimate against the configured ceiling
ExceedsCeiling(filesize, max_mb) == filesize.v > max_mb * MB

\* faulty variant of download_media_except: the exception is not caught
download_media_propagate(dsk, calls) ==
    [raised |-> TRUE, result |-> FailureResult("engine_error"),
     disk |-> dsk, calls |-> calls]

\* the except clause of download_media (lines 159-164)
download_media_except(dsk, calls) ==
    [raised |-> FALSE, result |-> FailureResult("engine_error"),
     disk |-> dsk, calls |-> calls]

\* MediaDownloader.download_media: result, disk and engine calls made
download_media(url, quality, media_type, eng, dsk, max_mb) ==
    LET opts     == get_yt_dlp_options(quality, media_type)
        filesize == EstimatedFilesize(eng.info)
        written  == WrittenFile(opts, eng.title)
        dsk2     == [dsk EXCEPT ![written] = eng.size]
        filename == IF media_type = "audio"
                    THEN rsplit_stem(prepare_filename(opts, eng.title))
                             \o <<".", "mp3">>
                    ELSE prepare_filename(opts, eng.title)
    IN  IF eng.fail = "init" THEN download_media_except(dsk, <<>>)
        ELSE IF eng.fail = "probe"
             THEN download_media_except(dsk, <<"probe">>)
        ELSE IF filesize.kind = "none"   \* None / (1024 * 1024): TypeError
             THEN download_media_except(dsk, <<"probe">>)
        ELSE IF ExceedsCeiling(filesize, max_mb)
             THEN [raised |-> FALSE,
                   result |-> FailureResult("size_exceeds_limit"),
                   disk |-> dsk, calls |-> <<"probe">>]
        ELSE IF eng.fail = "download"
             THEN download_media_except(dsk, <<"probe", "download">>)
        ELSE IF eng.fail = "normalise"
             THEN download_media_except(dsk2, <<"probe", "download">>)
        ELSE [raised |-> FALSE,
              result |-> [success |-> TRUE, filepath |-> filename,
                          title |-> eng.title, filesize_mb |-> 0,
                          error |-> None],
              disk |-> dsk2, calls |-> <<"probe", "download">>]

-----------------------------------------------------------------------------
(* Conversation state and the running handler *)

NoPending ==
    [present |-> FALSE, filepath |-> <<>>, file_size |-> NoFile,
     result |-> FailureResult(None), media_type |-> None]

\* an empty context.user_data: no key is set
NewUserData ==
    [quality |-> Absent, media_type |-> Absent, has_premium |-> Absent,
     pending_file |-> NoPending]

\* context.user_data.get(key, default)
get(ud, key, default) == IF ud[key] = Absent THEN default ELSE ud[key]

\* kinds of calls to the chat transport; each kind may be failing while an
\* update is handled
CallKinds == {"reply", "edit", "send", "misc"}

\* the transport conditions considered for one update
Downs == { {}, {"send"}, {"edit"}, CallKinds }

\* the locals of a handler run: the user's data, the disk, the user's prompt
\* keyboard, the transport log and whether an exception is propagating
Frame(u, down, lg) ==
    [ud |-> user_data[u], disk |-> disk, kb |-> keyboard[u], log |-> lg,
     down |-> down, exc |-> FALSE, caught |-> FALSE, calls |-> <<>>,
     dl |-> "none", size |-> NoFile, filepath |-> <<>>, est |-> 0,
     engfail |-> "none", stage |-> "done",
     url |-> <<>>, quality |-> None, media_type |-> None, prem |-> FALSE]

Event(call, ok) == [call |-> call, ok |-> ok]

\* an awaited call to the chat transport: it raises when its kind is failing
Tx(st, kind, call) ==
    IF st.exc THEN st
    ELSE IF kind \in st.down
         THEN [st EXCEPT !.log = Append(@, Event(call, FALSE)), !.exc = TRUE]
         ELSE [st EXCEPT !.log = Append(@, Event(call, TRUE))]

\* an exception raised by the handler's own code
Raise(st, what) ==
    IF st.exc THEN st
    ELSE [st EXCEPT !.log = Append(@, Event(what, FALSE)), !.exc = TRUE]

\* try: <call> except Exception: pass
TxIgnoringFailure(st, kind, call) ==
    IF st.exc THEN st ELSE [Tx(st, kind, call) EXCEPT !.exc = FALSE]

\* faulty variant of ExceedsLimit: the limits compared with >= instead of >
ExceedsLimit_ge(size, limit_mb) == size >= limit_mb * MB

\* the file-size comparisons of lines 476 and 488, on a size in KiB
ExceedsLimit(size, limit_mb) == size > limit_mb * MB

\* faulty variant of send_media_file: the test of media_type inverted
send_media_file_swapped(st, message_is_none, filepath, media_type) ==
    LET opened == IF exists(st.disk, filepath) THEN st
                  ELSE Raise(st, "FileNotFoundError")
        target == IF message_is_none THEN Raise(opened, "AttributeError")
                  ELSE opened
        sent   == Tx(target, "send",
                     IF media_type = "audio" THEN "reply_video"
                     ELSE "reply_audio")
    IN  TxIgnoringFailure(sent, "misc", "delete_status")

\* send_media_file (lines 346-397). message_is_none: update.message is None,
\* as it is in the Update of a callback query, where hasattr(update,
\* 'message') is still true
send_media_file(st, message_is_none, filepath, media_type) ==
    LET opened == IF exists(st.disk, filepath) THEN st
                  ELSE Raise(st, "FileNotFoundError")
        target == IF message_is_none THEN Raise(opened, "AttributeError")
                  ELSE opened
        sent   == Tx(target, "send",
                     IF media_type = "audio" THEN "reply_audio"
                     ELSE "reply_video")
    IN  TxIgnoringFailure(sent, "misc", "delete_status")

\* the premium prompt's first button: f"premium_yes|{url}|{quality}|{media_type}"
PremiumYesButton(url, quality, media_type) ==
    <<"premium_", "yes", "|">> \o url \o <<"|", quality, "|", media_type>>

\* faulty variant of has_premium: the recorded flag is not consulted
has_premium_unread(ud) == FALSE

\* line 436: has_premium = context.user_data.get('has_premium', False)
has_premium(ud) == get(ud, "has_premium", "False") = "True"

\* handle_message up to the download (lines 403-449)
handle_message_begin(st, allowed, user_id, text) ==
    LET urls == findall(text)
        url  == urls[1]
    IN  IF /\ allowed # <<>> /\ allowed[1] # <<>>
           /\ ~InSeq(<<user_id>>, allowed)
        THEN Tx(st, "reply", "unauthorized")
        ELSE IF urls = <<>> THEN Tx(st, "reply", "no_url_found")
        ELSE IF ~is_valid_url(url) THEN Tx(st, "reply", "invalid_url")
        ELSE LET media_type == get(st.ud, "media_type", "video")
                 status == Tx(st, "reply", "processing")
                 action == Tx(status, "misc", "send_chat_action")
             IN  IF action.exc THEN action
                 ELSE [action EXCEPT
                          !.stage = "download",
                          !.url = url,
                          !.quality = get(st.ud, "quality", "best"),
                          !.media_type = media_type,
                          !.prem = has_premium(st.ud)]

\* faulty variant of cleanup: os.remove without the os.path.exists test, which
\* raises FileNotFoundError for a file that is not there
cleanup_unguarded(st, filepath) ==
    IF st.exc THEN st
    ELSE IF exists(st.disk, filepath)
         THEN [st EXCEPT !.disk = remove(@, filepath),
                         !.log = Append(@, Event("os_remove", TRUE))]
         ELSE Raise(st, "FileNotFoundError")

\* faulty variant of cleanup: the downloaded file is left where it is
cleanup_skip(st, filepath) == st

\* lines 526-531: remove the downloaded file if it is there (the removal is
\* noted in the update's log)
cleanup(st, filepath) ==
    IF st.exc THEN st
    ELSE IF exists(st.disk, filepath)
         THEN [st EXCEPT !.disk = remove(@, filepath),
                         !.log = Append(@, Event("os_remove", TRUE))]
         ELSE st

\* lines 470-531: what handle_message does with a successful download
deliver(st, result) ==
    LET filepath == result.filepath
        s1 == IF exists(st.disk, filepath)
              THEN [st EXCEPT !.size = st.disk[filepath]]
              ELSE Raise(st, "FileNotFoundError")   \* os.path.getsize
        size == s1.size
    IN  IF s1.exc THEN s1
        ELSE IF ExceedsLimit(size, PREMIUM_USER_LIMIT_MB)
        THEN cleanup(Tx(s1, "edit", "file_too_large"), filepath)
        ELSE IF ExceedsLimit(size, REGULAR_USER_LIMIT_MB)
        THEN IF st.prem
             THEN cleanup(send_media_file(s1, FALSE, filepath, st.media_type),
                          filepath)
             ELSE LET prompt == Tx(s1, "edit", "premium_prompt")
                  IN  IF prompt.exc THEN prompt
                      ELSE [prompt EXCEPT
                               !.kb = PremiumYesButton(st.url, st.quality,
                                                       st.media_type),
                               !.ud.pending_file =
                                   [present |-> TRUE, filepath |-> filepath,
                                    file_size |-> size, result |-> result,
                                    media_type |-> st.media_type]]
        ELSE cleanup(send_media_file(s1, FALSE, filepath, st.media_type),
                     filepath)

\* the except clause of handle_message (lines 533-540)
handle_message_except(st) ==
    IF st.exc
    THEN Tx([st EXCEPT !.exc = FALSE, !.caught = TRUE], "edit", "error_occurred")
    ELSE st

\* handle_message from the download on (lines 451-540)
handle_message_download(st, eng, max_mb) ==
    LET dm == download_media(st.url, st.quality, st.media_type, eng,
                             st.disk, max_mb)
        s0 == [st EXCEPT !.disk = dm.disk, !.calls = dm.calls,
                         !.stage = "done",
                         !.engfail = eng.fail,
                         !.est = EstimatedFilesize(eng.info).v,
                         !.filepath = IF dm.result.success
                                      THEN dm.result.filepath ELSE <<>>,
                         !.dl = IF dm.raised THEN "raised"
                                ELSE IF dm.result.success THEN "ok"
                                ELSE dm.result.error]
        body == IF dm.raised THEN Raise(s0, "DownloadError")
                ELSE IF ~dm.result.success
                     THEN Tx(s0, "edit", "download_failed")
                     ELSE deliver(Tx(s0, "edit", "download_complete"),
                                  dm.result)
    IN  handle_message_except(body)

-----------------------------------------------------------------------------
(* Callback and command handlers *)

\* a string of at most one token, as a value
str(s) == IF s = <<>> THEN "" ELSE s[1]

\* faulty variant of pending_media_type: the user's current mode preference
current_media_type(ud) == get(ud, "media_type", "video")

\* the media type premium_yes hands to send_media_file: the one stored in the
\* pending record (line 308)
pending_media_type(ud) == ud.pending_file.media_type

\* faulty variant of premium_yes: the file removed and the record dropped
\* whether or not the send succeeded, as a finally clause would
premium_yes_finally(st) ==
    LET s0 == [st EXCEPT !.ud.has_premium = "True"]
        pending == s0.ud.pending_file
        media_type == pending_media_type(s0.ud)
    IN  IF pending.present
        THEN LET editing == Tx(s0, "edit", "uploading")
                 edited  == IF editing.exc THEN editing
                            ELSE [editing EXCEPT !.kb = <<>>]
                 sent    == send_media_file(
                                [edited EXCEPT !.media_type = media_type],
                                TRUE, pending.filepath, media_type)
                 cleaned == [cleanup([sent EXCEPT !.exc = FALSE],
                                     pending.filepath)
                             EXCEPT !.ud.pending_file = NoPending,
                                    !.exc = sent.exc]
             IN  IF edited.exc THEN edited
                 ELSE IF cleaned.exc
                      THEN Tx([cleaned EXCEPT !.exc = FALSE, !.caught = TRUE],
                              "reply", "upload_failed")
                      ELSE cleaned
        ELSE LET editing == Tx(s0, "edit", "file_expired")
             IN  IF editing.exc THEN editing
                 ELSE [editing EXCEPT !.kb = <<>>]

\* the premium_yes branch of button_callback (lines 293-319)
premium_yes(st) ==
    LET s0 == [st EXCEPT !.ud.has_premium = "True"]
        pending == s0.ud.pending_file
        media_type == pending_media_type(s0.ud)
    IN  IF pending.present
        THEN LET editing == Tx(s0, "edit", "uploading")
                 edited  == IF editing.exc THEN editing
                            ELSE [editing EXCEPT !.kb = <<>>]
                 sent    == send_media_file(
                                [edited EXCEPT !.media_type = media_type],
                                TRUE, pending.filepath, media_type)
                 cleaned == cleanup(sent, pending.filepath)
                 body    == IF cleaned.exc THEN cleaned
                            ELSE [cleaned EXCEPT !.ud.pending_file = NoPending]
             IN  IF edited.exc THEN edited
                 ELSE IF body.exc
                      THEN Tx([body EXCEPT !.exc = FALSE, !.caught = TRUE],
                              "reply", "upload_failed")
                      ELSE body
        ELSE LET editing == Tx(s0, "edit", "file_expired")
             IN  IF editing.exc THEN editing
                 ELSE [editing EXCEPT !.kb = <<>>]

\* faulty variant of premium_no: the pending record dropped, its file left on disk
premium_no_keep(st) ==
    LET pending == st.ud.pending_file
        text    == IF pending.present THEN st ELSE Raise(st, "TypeError")
        editing == Tx(text, "edit", "premium_required")
    IN  IF editing.exc THEN editing
        ELSE [editing EXCEPT !.kb = <<>>, !.ud.pending_file = NoPending]

\* the premium_no branch of button_callback (lines 321-343)
premium_no(st) ==
    LET pending == st.ud.pending_file
        \* the message text subscripts pending: None raises TypeError
        text    == IF pending.present THEN st ELSE Raise(st, "TypeError")
        editing == Tx(text, "edit", "premium_required")
        cleaned == cleanup(editing, pending.filepath)
    IN  IF cleaned.exc THEN cleaned
        ELSE [cleaned EXCEPT !.kb = <<>>, !.ud.pending_file = NoPending]

\* button_callback (lines 278-343)
button_callback(st, data) ==
    LET answered == Tx(st, "misc", "answer")
    IN  IF answered.exc THEN answered
        ELSE IF startswith(data, <<"quality_">>)
        THEN Tx([answered EXCEPT
                    !.ud.quality = str(replace(data, "quality_"))],
                "edit", "quality_set")
        ELSE IF startswith(data, <<"premium_">>)
        THEN IF data = <<"premium_", "yes">> THEN premium_yes(answered)
             ELSE IF data = <<"premium_", "no">> THEN premium_no(answered)
             ELSE answered
        ELSE answered

\* the buttons of the quality picker that the model presses
QualityButtons == {"best", "720p"}

Commands == {"/quality", "/audio", "/video"}

\* faulty variant of command: switching the mode also resets the quality
command_reset(st, cmd) ==
    CASE cmd = "/audio" ->
             Tx([st EXCEPT !.ud.media_type = "audio", !.ud.quality = "best"],
                "reply", "audio_mode")
      [] cmd = "/video" ->
             Tx([st EXCEPT !.ud.media_type = "video", !.ud.quality = "best"],
                "reply", "video_mode")
      [] OTHER -> Tx(st, "reply", "quality_picker")

\* quality_command, audio_command and video_command (lines 240-275)
command(st, cmd) ==
    CASE cmd = "/audio" ->
             Tx([st EXCEPT !.ud.media_type = "audio"], "reply", "audio_mode")
      [] cmd = "/video" ->
             Tx([st EXCEPT !.ud.media_type = "video"], "reply", "video_mode")
      [] OTHER -> Tx(st, "reply", "quality_picker")

\* faulty variant of error_handler: the error is logged and no message is sent
error_handler_silent(st) == [st EXCEPT !.exc = FALSE]

\* error_handler (lines 543-550), which the Application calls with every
\* exception a handler raises (line 574); an exception it raises itself is
\* logged by the Application
error_handler(st) ==
    IF st.exc
    THEN [Tx([st EXCEPT !.exc = FALSE], "reply", "apology") EXCEPT !.exc = FALSE]
    ELSE st

-----------------------------------------------------------------------------
(* The state machine *)

Idle ==
    [kind |-> "none", user |-> None, payload |-> <<>>, stage |-> "new",
     url |-> <<>>, quality |-> None, media_type |-> None, prem |-> FALSE,
     down |-> {}]

NoLast ==
    [kind |-> "none", user |-> None, raised |-> FALSE, caught |-> FALSE,
     calls |-> <<>>, dl |-> "none", size |-> NoFile, filepath |-> <<>>,
     est |-> 0, engfail |-> "none", prem |-> FALSE, media_type |-> None]

\* data of the buttons the bot has put in the chat, and of the two premium
\* answers as button_callback tests for them
CallbackData(u) ==
    {<<"quality_", q>> : q \in QualityButtons}
    \cup {<<"premium_", "yes">>, <<"premium_", "no">>}
    \cup (IF keyboard[u] = <<>> THEN {} ELSE {keyboard[u]})

Init ==
    /\ \E env \in Environments :
          config = [ALLOWED_USERS |-> ALLOWED_USERS(env.ALLOWED_USERS),
                    MAX_FILE_SIZE_MB |-> env.MAX_FILE_SIZE_MB]
    /\ user_data = [u \in Users |-> NewUserData]
    /\ disk = EmptyDisk
    /\ keyboard = [u \in Users |-> <<>>]
    /\ cur = Idle
    /\ log = <<>>
    /\ last = NoLast
    /\ handled = 0

\* the Application takes the next update; it takes none while a handler runs
Fetch ==
    /\ cur.kind = "none"
    /\ handled < MaxUpdates
    /\ \E u \in Users :
          \/ \E text \in Texts :
                cur' = [Idle EXCEPT !.kind = "message", !.user = u,
                                    !.payload = text]
          \/ \E cmd \in Commands :
                cur' = [Idle EXCEPT !.kind = "command", !.user = u,
                                    !.payload = <<cmd>>]
          \/ \E data \in CallbackData(u) :
                cur' = [Idle EXCEPT !.kind = "callback", !.user = u,
                                    !.payload = data]
    /\ UNCHANGED <<config, user_data, disk, keyboard, log, last, handled>>

\* the handler has returned or raised: the Application runs the error
\* handler if it raised, and is ready for the next update
Finish(st) ==
    LET final == error_handler(st)
    IN  /\ user_data' = [user_data EXCEPT ![cur.user] = final.ud]
        /\ disk' = final.disk
        /\ keyboard' = [keyboard EXCEPT ![cur.user] = final.kb]
        /\ log' = final.log
        /\ last' = [kind |-> cur.kind, user |-> cur.user, raised |-> st.exc,
                    caught |-> st.caught, calls |-> st.calls, dl |-> st.dl,
                    size |-> st.size, filepath |-> st.filepath,
                    est |-> st.est, engfail |-> st.engfail, prem |-> st.prem,
                    media_type |-> st.media_type]
        /\ cur' = Idle
        /\ handled' = handled + 1
        /\ UNCHANGED config

HandleMessageBegin ==
    /\ cur.kind = "message"
    /\ cur.stage = "new"
    /\ \E down \in Downs :
          LET st == handle_message_begin(Frame(cur.user, down, <<>>),
                                         config.ALLOWED_USERS, cur.user,
                                         cur.payload)
          IN  IF st.stage = "download"
              THEN /\ cur' = [cur EXCEPT !.stage = "download", !.url = st.url,
                                 !.quality = st.quality,
                                 !.media_type = st.media_type,
                                 !.prem = st.prem, !.down = down]
                   /\ log' = st.log
                   /\ UNCHANGED <<config, user_data, disk, keyboard, last,
                                  handled>>
              ELSE Finish(st)

HandleMessageDownload ==
    /\ cur.kind = "message"
    /\ cur.stage = "download"
    /\ \E eng \in EngineBehaviours :
          LET st == [Frame(cur.user, cur.down, log) EXCEPT
                        !.url = cur.url, !.quality = cur.quality,
                        !.media_type = cur.media_type, !.prem = cur.prem]
          IN  Finish(handle_message_download(st, eng, MAX_FILE_SIZE_MB))

ButtonCallback ==
    /\ cur.kind = "callback"
    /\ \E down \in Downs :
          Finish(button_callback(Frame(cur.user, down, <<>>), cur.payload))

Command ==
    /\ cur.kind = "command"
    /\ \E down \in Downs :
          Finish(command(Frame(cur.user, down, <<>>), cur.payload[1]))

Next ==
    \/ Fetch
    \/ HandleMessageBegin
    \/ HandleMessageDownload
    \/ ButtonCallback
    \/ Command

Spec == Init /\ [][Next]_vars

(* One conversation followed over a longer run: an open allow-list, the
   default ceiling, one user, one piece of text (a valid link), the mode
   commands and the premium answers *)

MaxConversation == 3

ConversationText == <<"https://", "example.com">>

ConversationInit ==
    /\ config = [ALLOWED_USERS |-> ALLOWED_USERS(<<>>),
                 MAX_FILE_SIZE_MB |-> PREMIUM_USER_LIMIT_MB]
    /\ user_data = [u \in Users |-> NewUserData]
    /\ disk = EmptyDisk
    /\ keyboard = [u \in Users |-> <<>>]
    /\ cur = Idle
    /\ log = <<>>
    /\ last = NoLast
    /\ handled = 0

ConversationFetch ==
    /\ cur.kind = "none"
    /\ handled < MaxConversation
    /\ \E u \in {"111"} :
          \/ cur' = [Idle EXCEPT !.kind = "message", !.user = u,
                                 !.payload = ConversationText]
          \/ \E cmd \in {"/audio", "/video"} :
                cur' = [Idle EXCEPT !.kind = "command", !.user = u,
                                    !.payload = <<cmd>>]
          \/ \E data \in {<<"premium_", "yes">>, <<"premium_", "no">>}
                          \cup (IF keyboard[u] = <<>> THEN {}
                                ELSE {keyboard[u]}) :
                cur' = [Idle EXCEPT !.kind = "callback", !.user = u,
                                    !.payload = data]
    /\ UNCHANGED <<config, user_data, disk, keyboard, log, last, handled>>

ConversationNext ==
    \/ ConversationFetch
    \/ HandleMessageBegin
    \/ HandleMessageDownload
    \/ ButtonCallback
    \/ Command

ConversationSpec == ConversationInit /\ [][ConversationNext]_vars

-----------------------------------------------------------------------------
(* Vocabulary of the properties *)

\* no update is being processed
IsIdle == cur.kind = "none"

\* the transport call was made and succeeded / was made and raised
Logged(lg, call) == \E i \in 1..Len(lg) : lg[i].call = call /\ lg[i].ok
Failed(lg, call) == \E i \in 1..Len(lg) : lg[i].call = call /\ ~lg[i].ok

Sent(lg) == Logged(lg, "reply_video") \/ Logged(lg, "reply_audio")
SendFailed(lg) == Failed(lg, "reply_video") \/ Failed(lg, "reply_audio")

\* every call of the update succeeded
AllOk(lg) == \A i \in 1..Len(lg) : lg[i].ok

pending_file(u) == user_data[u].pending_file

\* a message handler has just returned after a successful download, with no
\* exception raised on the way
DeliveredMessage ==
    /\ IsIdle
    /\ last.kind = "message"
    /\ last.dl = "ok"
    /\ ~last.caught
    /\ ~last.raised

-----------------------------------------------------------------------------
(* C1 *)

\* C1: after a successful download, handle_message routes by the measured
\* size alone: at most 50 MB is sent at once; more than 50 MB and at most
\* 2048 MB, with has_premium unset, sends nothing, shows the premium prompt
\* and stores the pending record; more than 2048 MB sends nothing and reports
\* the rejection. This holds for every quality, media kind and estimate.
C1_RoutingBySize ==
    DeliveredMessage =>
        LET size == last.size
            p == pending_file(last.user)
        IN  /\ size <= REGULAR_USER_LIMIT_MB * MB =>
                  /\ Sent(log)
                  /\ ~Logged(log, "premium_prompt")
                  /\ ~Logged(log, "file_too_large")
            /\ ( /\ size > REGULAR_USER_LIMIT_MB * MB
                 /\ size <= PREMIUM_USER_LIMIT_MB * MB
                 /\ ~last.prem ) =>
                  /\ ~Sent(log)
                  /\ Logged(log, "premium_prompt")
                  /\ ~Logged(log, "file_too_large")
                  /\ p.present
                  /\ p.filepath = last.filepath
                  /\ p.file_size = size
            /\ size > PREMIUM_USER_LIMIT_MB * MB =>
                  /\ ~Sent(log)
                  /\ ~Logged(log, "premium_prompt")
                  /\ Logged(log, "file_too_large")

\* an audio request of exactly the premium limit ended in the premium prompt
C1_Witness ==
    /\ DeliveredMessage
    /\ last.size = PREMIUM_USER_LIMIT_MB * MB
    /\ last.media_type = "audio"
    /\ Logged(log, "premium_prompt")

-----------------------------------------------------------------------------
(* C2 *)

\* C2: when a request awaits premium confirmation, pressing the first button
\* of the prompt delivers the pending file, removes the temp file and clears
\* the pending record (whenever no transport call of the callback fails).
C2_PromptButtonDelivers ==
    [][ ( /\ cur.kind = "callback"
          /\ keyboard[cur.user] # <<>>
          /\ cur.payload = keyboard[cur.user]
          /\ pending_file(cur.user).present
          /\ cur'.kind = "none"
          /\ AllOk(log') )
        => ( /\ Sent(log')
             /\ ~exists(disk', pending_file(cur.user).filepath)
             /\ ~user_data'[cur.user].pending_file.present ) ]_vars

-----------------------------------------------------------------------------
(* C3 *)

\* C3: when a request awaits premium confirmation, a premium_no callback
\* whose rejection message goes out sends no file, removes the pending temp
\* file from disk and clears the pending record.
C3_PremiumNoDiscards ==
    [][ ( /\ cur.kind = "callback"
          /\ cur.payload = <<"premium_", "no">>
          /\ pending_file(cur.user).present
          /\ cur'.kind = "none"
          /\ Logged(log', "premium_required") )
        => ( /\ ~Sent(log')
             /\ ~SendFailed(log')
             /\ ~exists(disk', pending_file(cur.user).filepath)
             /\ ~user_data'[cur.user].pending_file.present ) ]_vars

\* a premium_no callback has answered a pending request with the rejection
C3_Witness ==
    /\ IsIdle
    /\ last.kind = "callback"
    /\ Logged(log, "premium_required")
    /\ ~pending_file(last.user).present
    /\ \A p \in Paths : ~exists(disk, p)

-----------------------------------------------------------------------------
(* C4 *)

\* C4: if the probed size exceeds MAX_FILE_SIZE_MB, download_media returns a
\* failure, the engine's download step is not invoked, no file is created
\* and nothing is sent.
C4_CeilingBeforeDownload ==
    [][ ( /\ cur.kind = "message"
          /\ cur'.kind = "none"
          /\ last'.calls # <<>>
          /\ last'.est > config.MAX_FILE_SIZE_MB * MB )
        => ( /\ last'.dl = "size_exceeds_limit"
             /\ last'.calls = <<"probe">>
             /\ disk' = disk
             /\ ~Sent(log')
             /\ ~SendFailed(log') ) ]_vars

\* an estimate of 2048 MB was rejected under a ceiling of 1024 MB
C4_Witness ==
    /\ IsIdle
    /\ last.kind = "message"
    /\ last.est = 2048 * MB
    /\ config.MAX_FILE_SIZE_MB = 1024
    /\ last.dl = "size_exceeds_limit"
    /\ Logged(log, "download_failed")

-----------------------------------------------------------------------------
(* C5 *)

\* the texts without a match of the URL pattern, and those whose first
\* match is_valid_url rejects, classified by hand from the two patterns
TextsWithoutUrl ==
    { <<"!">>, <<"example.com", "/watch">>, <<"https://">>,
      <<"http://", " ", "example.com">> }

TextsWithBadFirstUrl ==
    { <<"https://", "!">>, <<"http://", "example.com", "!">>,
      <<"https://", "!", " ", "https://", "example.com">> }

\* C5: a message without a URL, or whose first URL is_valid_url rejects, is
\* finished by its first reply ("no URL found" or "invalid URL" for a user
\* who passes the allow-list): no engine call, no file, no pending record.
C5_NoUrlNoDownload ==
    [][ ( /\ cur.kind = "message"
          /\ cur.stage = "new"
          /\ cur.payload \in TextsWithoutUrl \cup TextsWithBadFirstUrl )
        => ( /\ cur'.kind = "none"
             /\ last'.calls = <<>>
             /\ disk' = disk
             /\ user_data' = user_data
             /\ Len(log') >= 1
             /\ log'[1].call \in
                    {"unauthorized",
                     IF cur.payload \in TextsWithoutUrl
                     THEN "no_url_found" ELSE "invalid_url"} ) ]_vars

\* a message whose first URL was rejected, though a valid one follows, has
\* been answered with "invalid URL"
C5_Witness ==
    /\ IsIdle
    /\ last.kind = "message"
    /\ Logged(log, "invalid_url")
    /\ last.calls = <<>>

-----------------------------------------------------------------------------
(* C6 *)

\* an allow-list is configured: the ALLOWED_USERS variable names a user
AllowListConfigured ==
    \E i \in 1..Len(config.ALLOWED_USERS) : config.ALLOWED_USERS[i] # <<>>

Listed(u) == InSeq(<<u>>, config.ALLOWED_USERS)

\* C6: when an allow-list is configured and the requester is not in it,
\* handle_message only replies with the unauthorized message: no engine call,
\* no download, no change to the user's data or the disk.
C6_UnlistedUserStopped ==
    [][ ( /\ cur.kind = "message"
          /\ cur.stage = "new"
          /\ AllowListConfigured
          /\ ~Listed(cur.user) )
        => ( /\ cur'.kind = "none"
             /\ Len(log') >= 1
             /\ log'[1].call = "unauthorized"
             /\ last'.calls = <<>>
             /\ user_data' = user_data
             /\ disk' = disk ) ]_vars

-----------------------------------------------------------------------------
(* C7 *)

\* C7: when sending the downloaded file fails in handle_message, the failure
\* is handled and the downloaded temp file does not remain on disk.
C7_CleanupAfterSendFailure ==
    ( /\ IsIdle
      /\ last.kind = "message"
      /\ last.dl = "ok"
      /\ SendFailed(log) )
    => ( /\ last.caught
         /\ ~exists(disk, last.filepath) )

-----------------------------------------------------------------------------
(* C8 *)

\* C8: when handle_message overwrites a pending record with one for another
\* file, the file of the prior record is no longer on disk.
C8_PriorPendingFileDeleted ==
    [][ ( /\ cur.kind = "message"
          /\ cur'.kind = "none"
          /\ pending_file(cur.user).present
          /\ user_data'[cur.user].pending_file.present
          /\ user_data'[cur.user].pending_file.filepath
                 # pending_file(cur.user).filepath )
        => ~exists(disk', pending_file(cur.user).filepath) ]_vars

-----------------------------------------------------------------------------
(* C9 *)

\* C9: whatever step of the engine raises (constructing it, the probe, the
\* download, the normalisation of the result, or arithmetic on an estimate
\* that is None), download_media raises nothing and returns a result with
\* success false and an error, which handle_message reports as a failed
\* download.
C9_EngineFailureIsResult ==
    ( /\ IsIdle
      /\ last.kind = "message"
      /\ last.engfail # "none" )
    => ( /\ last.dl = "engine_error"
         /\ \/ Logged(log, "download_failed")
            \/ Failed(log, "download_failed") )

\* the download step raised after the probe, and the handler reported a
\* failed download
C9_Witness ==
    /\ IsIdle
    /\ last.kind = "message"
    /\ last.engfail = "download"
    /\ last.calls = <<"probe", "download">>
    /\ last.dl = "engine_error"
    /\ Logged(log, "download_failed")

-----------------------------------------------------------------------------
(* C10 *)

\* a message that tells the user of an error has gone out
ErrorMessageShown(lg) ==
    \/ Logged(lg, "error_occurred")
    \/ Logged(lg, "upload_failed")
    \/ Logged(lg, "apology")

\* an exception was raised in the last handler: its except clause ran, or
\* the exception reached the Application
HandlerRaised == last.caught \/ last.raised

\* C10, as stated: every exception raised in a handler ends in a message to
\* the user that tells of the error.
C10_EveryExceptionShown ==
    (IsIdle /\ HandlerRaised) => ErrorMessageShown(log)

\* C10, amended: every exception raised in a handler is caught by the
\* handler or handed to error_handler; an error message goes out unless the
\* last attempt, error_handler's reply, fails itself; and whenever an
\* exception reached the Application the error handler was run and the next
\* update can be taken.
C10_ExceptionsReportedOrLogged ==
    IsIdle =>
        /\ HandlerRaised =>
              \/ ErrorMessageShown(log)
              \/ Failed(log, "apology")
        /\ last.raised =>
              \/ Logged(log, "apology")
              \/ Failed(log, "apology")
        /\ handled < MaxUpdates => ENABLED Fetch

\* the report of handle_message's except clause failed, the exception reached
\* the Application and error_handler's apology went out
C10_Witness ==
    /\ IsIdle
    /\ last.kind = "message"
    /\ last.caught
    /\ last.raised
    /\ Failed(log, "error_occurred")
    /\ Logged(log, "apology")

-----------------------------------------------------------------------------
(* Mode switches and requests under way *)

\* the calls that send the file, in the order made
SendCalls(lg) ==
    SelectSeq(lg, LAMBDA e : e.call \in {"reply_video", "reply_audio"})

\* C11: a request is downloaded and delivered with the media type the user's
\* preference had when the message arrived: handle_message reads it once,
\* the engine writes the file of that type, the send call and the pending
\* record carry it; /audio and /video leave a pending record as it is, and
\* premium_yes hands the pending record's media type to the send.
C11_MediaTypeOfRequestKept ==
    [][ /\ ( cur.kind = "message" /\ cur'.stage = "download" )
            => cur'.media_type = IF user_data[cur.user].media_type = Absent
                                 THEN "video"
                                 ELSE user_data[cur.user].media_type
        /\ ( cur.kind = "message" /\ cur.stage = "download"
             /\ cur'.kind = "none" )
            => /\ \A i \in 1..Len(log') :
                     /\ log'[i].call = "reply_audio"
                           => cur.media_type = "audio"
                     /\ log'[i].call = "reply_video"
                           => cur.media_type # "audio"
               /\ last'.dl = "ok"
                     => last'.filepath[3] = IF cur.media_type = "audio"
                                            THEN "mp3" ELSE "mp4"
               /\ ( /\ user_data'[cur.user].pending_file.present
                    /\ Logged(log', "premium_prompt") )
                     => user_data'[cur.user].pending_file.media_type
                           = cur.media_type
        /\ ( cur.kind = "command" /\ cur'.kind = "none" )
            => /\ user_data'[cur.user].pending_file
                     = user_data[cur.user].pending_file
               /\ disk' = disk
        /\ ( /\ cur.kind = "callback"
             /\ cur.payload = <<"premium_", "yes">>
             /\ user_data[cur.user].pending_file.present
             /\ Logged(log', "uploading") )
            => last'.media_type = user_data[cur.user].pending_file.media_type
      ]_vars

\* a video request waits for its answer, the user switches to /audio and
\* answers "I have Premium": the send is attempted with the video type
C11_Witness ==
    /\ IsIdle
    /\ last.kind = "callback"
    /\ Logged(log, "uploading")
    /\ last.media_type = "video"
    /\ user_data[last.user].media_type = "audio"

-----------------------------------------------------------------------------
(* The download and the other conversations *)

\* C12: while the download of one conversation is in progress (the handler
\* stands between its status message and the engine's return), the
\* Application can take an update of another conversation.
C12_DownloadDoesNotBlock ==
    ( /\ cur.kind = "message"
      /\ cur.stage = "download"
      /\ handled < MaxUpdates )
    => ENABLED Fetch

-----------------------------------------------------------------------------
(* Cleanup *)

\* C13: the cleanup step run on a file that is no longer on disk raises
\* nothing and changes no file. The step is reached with the file gone when
\* "Continue without Premium" answers a pending record whose file a later
\* request has removed: the answer is edited in, no exception is raised, the
\* disk is as it was and the record is dropped.
C13_CleanupIdempotent ==
    [][ ( /\ cur.kind = "callback"
          /\ cur.payload = <<"premium_", "no">>
          /\ user_data[cur.user].pending_file.present
          /\ disk[user_data[cur.user].pending_file.filepath] = NoFile
          /\ Logged(log', "premium_required") )
        => ( /\ ~last'.raised
             /\ ~Failed(log', "FileNotFoundError")
             /\ disk' = disk
             /\ ~user_data'[cur.user].pending_file.present )
      ]_vars

\* the answer "Continue without Premium" has been handled for a pending
\* record whose file was already gone
C13_Witness ==
    /\ IsIdle
    /\ last.kind = "callback"
    /\ Logged(log, "premium_required")
    /\ ~last.raised
    /\ ~pending_file(last.user).present
    /\ ~Logged(log, "os_remove")

-----------------------------------------------------------------------------
(* The direct delivery of a video *)

DownloadCalls(calls) == SelectSeq(calls, LAMBDA c : c = "download")

\* C14: a request in video mode whose download succeeds with a measured size
\* of at most 50 MB and whose send succeeds has made the engine's download
\* call exactly once and exactly one send call, reply_video; when
\* handle_message returns the file is not on disk and the request has left
\* no pending record (the user's pending_file is what it was before).
C14_VideoDeliveredOnce ==
    [][ ( /\ cur.kind = "message"
          /\ cur.stage = "download"
          /\ cur.media_type = "video"
          /\ last'.dl = "ok"
          /\ last'.size <= REGULAR_USER_LIMIT_MB * MB
          /\ Sent(log') )
        => ( /\ cur'.kind = "none"
             /\ Len(DownloadCalls(last'.calls)) = 1
             /\ Len(SendCalls(log')) = 1
             /\ SendCalls(log')[1].call = "reply_video"
             /\ last'.filepath[3] = "mp4"
             /\ disk'[last'.filepath] = NoFile
             /\ ~Logged(log', "premium_prompt")
             /\ user_data'[cur.user].pending_file
                   = user_data[cur.user].pending_file )
      ]_vars

\* a video of exactly 50 MB has been sent and its file removed
C14_Witness ==
    /\ DeliveredMessage
    /\ last.media_type = "video"
    /\ last.size = REGULAR_USER_LIMIT_MB * MB
    /\ Logged(log, "reply_video")
    /\ Logged(log, "os_remove")
    /\ disk[last.filepath] = NoFile

-----------------------------------------------------------------------------
(* The recorded premium answer *)

-----------------------------------------------------------------------------
(* The configured ceiling *)

\* C16: MAX_FILE_SIZE_MB is a hard ceiling whatever its value and whatever
\* the engine's estimate: a file whose measured size exceeds it is not sent,
\* and no pending record holds a file of such a size.
C16_CeilingIsHard ==
    /\ ( /\ IsIdle
         /\ last.kind = "message"
         /\ last.size > MAX_FILE_SIZE_MB * MB )
        => ~Sent(log)
    /\ \A u \in Users :
          pending_file(u).present
              => pending_file(u).file_size <= MAX_FILE_SIZE_MB * MB

-----------------------------------------------------------------------------
(* The rejection after the download *)

\* C17: when the measured size exceeds 2048 MB and the rejection has been
\* shown, handle_message has made no send call and shown no prompt, the
\* user's data (the pending record with it) is as it was, and the file is
\* not on disk when the handler returns.
C17_RejectedFileRemoved ==
    [][ ( /\ cur.kind = "message"
          /\ cur.stage = "download"
          /\ last'.dl = "ok"
          /\ last'.size > PREMIUM_USER_LIMIT_MB * MB
          /\ Logged(log', "download_complete") )
        => ( /\ cur'.kind = "none"
             /\ SendCalls(log') = <<>>
             /\ ~Logged(log', "premium_prompt")
             /\ ~Failed(log', "premium_prompt")
             /\ user_data' = user_data
             /\ keyboard' = keyboard
             /\ ( Logged(log', "file_too_large")
                    => /\ disk'[last'.filepath] = NoFile
                       /\ ~last'.raised ) )
      ]_vars

\* a download of one KiB more than 2048 MB has been rejected and removed
C17_Witness ==
    /\ DeliveredMessage
    /\ last.size = PREMIUM_USER_LIMIT_MB * MB + 1
    /\ Logged(log, "file_too_large")
    /\ Logged(log, "os_remove")
    /\ disk[last.filepath] = NoFile
    /\ ~Sent(log)

-----------------------------------------------------------------------------
(* What the preference commands and the quality buttons change *)

\* C18: /audio and /video set the user's media_type and nothing else, the
\* quality picker command sets nothing, and a quality_<tier> button sets
\* the user's quality to the tier and nothing else (once the query is
\* answered); the other preference, has_premium, the pending record,
\* the other users' data and every file on disk are as before.
C18_PreferencesFrame ==
    [][ /\ ( cur.kind = "command" /\ cur.payload = <<"/audio">> )
            => /\ user_data' = [user_data EXCEPT
                                   ![cur.user].media_type = "audio"]
               /\ disk' = disk
        /\ ( cur.kind = "command" /\ cur.payload = <<"/video">> )
            => /\ user_data' = [user_data EXCEPT
                                   ![cur.user].media_type = "video"]
               /\ disk' = disk
        /\ ( cur.kind = "command" /\ cur.payload = <<"/quality">> )
            => /\ user_data' = user_data
               /\ disk' = disk
        /\ \A q \in QualityButtons :
              ( cur.kind = "callback" /\ cur.payload = <<"quality_", q>> )
              => /\ user_data' =
                       IF Logged(log', "answer")
                       THEN [user_data EXCEPT ![cur.user].quality = q]
                       ELSE user_data
                 /\ disk' = disk
      ]_vars

\* with a request pending and its file on disk, the user has switched to
\* audio: the mode is set, the record and the file are there
C18_Witness ==
    /\ IsIdle
    /\ last.kind = "command"
    /\ Logged(log, "audio_mode")
    /\ user_data[last.user].media_type = "audio"
    /\ user_data[last.user].quality = Absent
    /\ pending_file(last.user).present
    /\ disk[pending_file(last.user).filepath] # NoFile

-----------------------------------------------------------------------------
(* The file of a pending record *)

\* C19: whenever a user has a pending record, the file at its filepath is
\* on disk: no request of the same or of another user removes it before
\* the record is resolved.
C19_PendingFileOnDisk ==
    \A u \in Users :
        pending_file(u).present
            => disk[pending_file(u).filepath] # NoFile

-----------------------------------------------------------------------------
(* "Continue without Premium" with nothing pending *)

\* C20: a premium_no callback that finds no pending record raises no
\* exception, removes no file and leaves the user's data as it was.
C20_PremiumNoWithoutPending ==
    [][ ( /\ cur.kind = "callback"
          /\ cur.payload = <<"premium_", "no">>
          /\ ~user_data[cur.user].pending_file.present
          /\ Logged(log', "answer") )
        => ( /\ ~last'.raised
             /\ disk' = disk
             /\ user_data' = user_data )
      ]_vars

-----------------------------------------------------------------------------
(* The answers that follow "I have Premium" *)

PremiumAnswers == {<<"premium_", "yes">>, <<"premium_", "no">>}

-----------------------------------------------------------------------------
(* A failed upload of a pending file *)

====
